---- MODULE Spec2Model ----
(***************************************************************************)
(* A model of easydet/model/module/layer.py: create_modules (the graph     *)
(* builder), Darknet.forward (the graph executor), Darknet.fuse and        *)
(* YOLOLayer.forward (the detection head); and of the training loop of     *)
(* train.py.                                                               *)
(*                                                                         *)
(* Tensors of the graph executor are modelled by their shape and by the    *)
(* index of the layer that produced them; the tensors of the detection     *)
(* head are modelled element by element, in row-major (contiguous) order.  *)
(***************************************************************************)
EXTENDS Integers, Sequences, FiniteSets, TLC

VARIABLES
    \* ---- create_modules ----
    hyper_params,     \* the record popped from module_defines (line 38)
    module_defines,   \* the layer specs, after pop(0)
    bpc,              \* position in create_modules: "loop", "done", "error"
    i,                \* the loop variable of line 44, <<>> while unbound
    output_filters,   \* line 39
    filters,          \* the local `filters`, <<>> while unbound
    module_list,      \* line 40 (Darknet.module_list after construction)
    routs,            \* line 41 (kept as the set of its elements)
    yolo_index,       \* line 42
    routs_binary,     \* line 184 (Darknet.routs after construction)
    \* ---- Darknet.forward ----
    fpc,              \* "idle", "loop", "done", "error"
    training,         \* self.training
    fwd_i,            \* the loop variable of line 212 (next layer to run)
    x,                \* the current tensor
    image_size,       \* line 209
    out,              \* line 210
    yolo_out,         \* line 210
    fwd_result,       \* what forward returned
    \* ---- a stand-alone YOLOLayer, its tensors element by element ----
    head,             \* the YOLOLayer object
    rebuilt,          \* whether the call made last has called create_grids
    ypc,              \* "idle", "called", "done", "error"
    pred_in,          \* the argument pred of the last call
    head_training,    \* self.training of the head at the last call
    head_result,      \* what the last call returned
    \* ---- Darknet.fuse ----
    fuse_log,         \* one entry per call of fuse: "done" or "raised"
    \* ---- train.py ----
    args,             \* the command line, as __main__ leaves it
    weights_file,     \* what torch.load(weights) yields
    batches_num,      \* line 233
    tpc,              \* position in train(): "idle", "load" (line 137),
                      \* "setup" (222), "first" (242, before the first
                      \* epoch), "batch" (278), "next" (242, after an
                      \* epoch), "aborted" (314), "returned" (418), "raised"
    epoch,            \* line 133, then the loop variable of line 242
    start_epoch,      \* line 134
    best_fitness,     \* line 135
    prebias,          \* line 234 (FALSE until then)
    results,          \* line 237 (the same value until then)
    index,            \* the index the loop of line 278 yields next
    model,            \* the Darknet of line 111: gr and state_dict
    optimizer,        \* the SGD of line 123: bias group, gradients, steps
    results_txt,      \* results.txt, as its number of lines
    saved,            \* weights/checkpoint.pth and weights/model_best.pth
    train_return,     \* what train() returned, <<>> before it returns
    best_results,     \* history: the evaluation results of highest fitness
                      \* among the epochs completed, <<>> before the first
    epoch_log         \* history: for every epoch completed in this run, its
                      \* fitness (line 379) and whether line 406 wrote
                      \* weights/model_best.pth in it

build_vars == <<hyper_params, module_defines, bpc, i, output_filters, filters,
                module_list, routs, yolo_index, routs_binary>>
fwd_vars == <<fpc, training, fwd_i, x, image_size, out, yolo_out, fwd_result>>
head_vars == <<head, rebuilt, ypc, pred_in, head_training, head_result>>
fuse_vars == <<fuse_log>>
train_vars == <<args, weights_file, batches_num, tpc, epoch, start_epoch,
                best_fitness, prebias, results, index, model, optimizer,
                results_txt, saved, train_return, best_results,
                epoch_log>>
vars == <<build_vars, fwd_vars, head_vars, fuse_vars, train_vars>>

\* ---------------------------------------------------------------- bounds
\* The longest layer list the builder is run on.
MaxBuildLayers == 3
\* The longest layer list the executor is run on.
MaxLayers == 3
\* The longest layer list of a model fuse is run on.
MaxFuseLayers == 3
\* The most calls of Darknet.fuse on one model.
MaxFuseCalls == 2
\* The largest args.epochs.
MaxEpochs == 4
\* The largest number of batches of an epoch.
MaxBatches == 2
\* The largest args.accumulate.
MaxAccumulate == 3
\* Evaluation results are numbered 0..MaxFitness.
MaxFitness == 2
\* The largest grid side of a stand-alone head's input.
MaxGrid == 2
\* The largest batch of a stand-alone head's input.
MaxBatch == 2

\* ---------------------------------------------------------------- helpers
Max(a, b) == IF a >= b THEN a ELSE b

RECURSIVE SumSeq(_)
SumSeq(s) == IF s = <<>> THEN 0 ELSE Head(s) + SumSeq(Tail(s))

\* Python's list indexing: s[k] is defined for -len <= k < len, a negative k
\* counting from the end.  The 1-based position of s[k] in a list of length n.
PyIndexOK(n, k) == -n <= k /\ k < n
PyPos(n, k) == IF k < 0 THEN n + k + 1 ELSE k + 1

SeqToSet(s) == {s[k] : k \in 1..Len(s)}

\* A call that may raise returns <<>> when it raises and <<value>> otherwise.
Raised == <<>>
Returned(v) == <<v>>

\* ------------------------------------------------------------ layer specs
\* A layer spec as parse_model_config yields it; every record carries every
\* field, the ones its type does not use being 0, FALSE or <<>>.
\*   hasFrom: whether the key "from" is in the record (line 151, 165)
\*   nanchors: len(module["anchors"][module["mask"]])
LayerSpec(type) ==
    [type |-> type, batch_normalize |-> FALSE, filters |-> 0, size |-> 0,
     stride |-> 0, pad |-> FALSE, layers |-> <<>>, hasFrom |-> FALSE,
     from |-> <<>>, nanchors |-> 0, classes |-> 0]

Convolutional(bn, f) ==
    [LayerSpec("convolutional") EXCEPT !.batch_normalize = bn, !.filters = f,
                                       !.size = 1, !.stride = 1, !.pad = TRUE]
Maxpool(size, stride) ==
    [LayerSpec("maxpool") EXCEPT !.size = size, !.stride = stride]
Avgpool == [LayerSpec("avgpool") EXCEPT !.size = 2, !.stride = 2]
Upsample == [LayerSpec("upsample") EXCEPT !.stride = 2]
Route(layers) == [LayerSpec("route") EXCEPT !.layers = layers]
Shortcut(from) == [LayerSpec("shortcut") EXCEPT !.from = from, !.hasFrom = TRUE]
Yolo == [LayerSpec("yolo") EXCEPT !.nanchors = 2, !.classes = 1]
YoloFrom(from) == [Yolo EXCEPT !.from = from, !.hasFrom = TRUE]
YoloNoClass == [Yolo EXCEPT !.classes = 0]
Dense(bn) == [LayerSpec("dense") EXCEPT !.batch_normalize = bn]

RecognisedTypes ==
    {"convolutional", "maxpool", "avgpool", "semodule", "shuffle", "dense",
     "upsample", "route", "shortcut", "yolo"}

\* The references of a layer spec: module['layers'] of a route, module['from']
\* of a shortcut or a yolo.
Refs(m) == IF m.type = "route" THEN m.layers
           ELSE IF m.type \in {"shortcut", "yolo"} THEN m.from
           ELSE <<>>

\* The layer a reference stands for (lines 137, 144).
NormIndex(k, layer) == IF layer < 0 THEN k + layer ELSE layer

\* spec.md section 3: a reference resolves, after normalisation, to a layer
\* strictly before the current one.
ValidDefines(defs) ==
    \A k \in 1..Len(defs) :
        \A r \in SeqToSet(Refs(defs[k])) :
            LET n == NormIndex(k - 1, r) IN 0 <= n /\ n < k - 1

SeqsUpTo(S, n) == UNION {[1..k -> S] : k \in 0..n}

\* The layer specs the builder is run on.
BuildLayerSpecs ==
    {Convolutional(bn, f) : bn \in BOOLEAN, f \in {4, 12}}
    \cup {Convolutional(FALSE, 10),
          Maxpool(2, 2), Maxpool(2, 1), Avgpool, Upsample,
          LayerSpec("semodule"), LayerSpec("shuffle"), LayerSpec("dense"),
          Route(<<-1>>), Route(<<0>>), Route(<<-1, -2>>), Route(<<1, 0>>),
          Shortcut(<<-2>>), Yolo, YoloFrom(<<0>>), YoloNoClass,
          LayerSpec("reorg")}

\* The layer specs the executor is run on.
FwdLayerSpecs ==
    {Convolutional(TRUE, 4), Convolutional(TRUE, 12), Convolutional(FALSE, 12),
     Maxpool(2, 2), Avgpool, Upsample, Route(<<-1>>), Route(<<-1, -2>>),
     Route(<<-2, -1>>), Shortcut(<<-2>>), Yolo, LayerSpec("reorg")}

\* The layer specs of the models fuse is run on.
FuseLayerSpecs ==
    {Convolutional(TRUE, 4), Convolutional(TRUE, 12), Convolutional(FALSE, 12),
     Maxpool(2, 2), Maxpool(2, 1), Avgpool, Dense(TRUE), Dense(FALSE), Upsample,
     Route(<<-1>>), Shortcut(<<-2>>), Yolo, LayerSpec("reorg")}

\* hyper_params["channels"]
Channels == {4, 12}

\* -------------------------------------------------------- create_modules
\* An entry of module_list.  kind is the class of the object appended at line
\* 181: "Sequential" (subs names its sublayers, empty for a placeholder),
\* "MaxPool2d", "Upsample", "WeightFeatureFusion" or "YOLOLayer".
\*   bias:  the argument bias of the first sublayer's constructor;
\*   bias_: the entries of that sublayer's bias parameter, <<>> when it is
\*          None or has no entry (the entries a fusion folds into the bias
\*          are not modelled: <<>> as well);
\*   fused: whether the first sublayer was made by fuse_conv_and_bn.
Module(kind) ==
    [kind |-> kind, subs |-> <<>>, in_channels |-> 0, out_channels |-> 0,
     kernel_size |-> 0, stride |-> 0, padding |-> 0, bias |-> FALSE,
     bias_ |-> <<>>, fused |-> FALSE, layers |-> <<>>,
     na |-> 0, nc |-> 0, no |-> 0, nx |-> 0, ny |-> 0, index |-> 0]

\* The index of the layer the loop of line 44 takes next.
NextIndex == IF i = <<>> THEN 0 ELSE i[1] + 1

AtLayer(type) ==
    /\ bpc = "loop"
    /\ NextIndex < Len(module_defines)
    /\ module_defines[NextIndex + 1].type = type

\* Lines 180-182, after the branch of the layer's type has run: modules is
\* appended, then `filters`, which the branch may have left as it was, is read.
\* Reading it while no branch has bound it yet raises UnboundLocalError.
RegisterOn(mods, modules, f, newrouts, yi) ==
    /\ i' = <<NextIndex>>
    /\ module_list' = Append(mods, modules)
    /\ routs' = routs \cup newrouts
    /\ yolo_index' = yi
    /\ filters' = f
    /\ IF f = <<>>
       THEN bpc' = "error" /\ UNCHANGED output_filters
       ELSE bpc' = "loop" /\ output_filters' = Append(output_filters, f[1])
    /\ UNCHANGED <<hyper_params, module_defines, routs_binary>>

\* The same for a branch that leaves the modules built so far as they are.
Register(modules, f, newrouts, yi) ==
    RegisterOn(module_list, modules, f, newrouts, yi)

\* A number of a bias vector: v / 2 + bc * log(1 / (nc - 0.99)).  Numbers are
\* kept in halves so that -4.5 and the means the code takes are integers.
BiasEntry(v) == [v |-> v, bc |-> 0]

\* What nn.Conv2d leaves in a bias of n entries: torch draws them at random;
\* here they are all zero, or the entry at position k is the number k.
BiasInits == {"zeros", "ramp"}
InitialBias(init, n) ==
    [k \in 1..n |-> BiasEntry(IF init = "ramp" THEN 2 * k ELSE 0)]

\* Lines 47-83.
ConvModule(m, in_channels, init) ==
    [Module("Sequential") EXCEPT
        !.subs = <<"Conv2d">>
                 \o (IF m.batch_normalize THEN <<"BatchNorm2d">> ELSE <<>>)
                 \o <<"activation">>,
        !.in_channels = in_channels,
        !.out_channels = m.filters,
        !.kernel_size = m.size,
        !.stride = m.stride,
        !.padding = IF m.pad THEN (m.size - 1) \div 2 ELSE 0,
        !.bias = ~m.batch_normalize,
        !.bias_ = IF m.batch_normalize THEN <<>>
                  ELSE InitialBias(init, m.filters)]

BuildConvolutional ==
    /\ AtLayer("convolutional")
    /\ LET m == module_defines[NextIndex + 1] IN
       \E init \in IF m.batch_normalize THEN {"none"} ELSE BiasInits :
          Register(ConvModule(m, output_filters[Len(output_filters)], init),
                   <<m.filters>>,
                   IF m.batch_normalize THEN {} ELSE {NextIndex},
                   yolo_index)
    /\ UNCHANGED <<fwd_vars, head_vars, fuse_vars, train_vars>>

\* Lines 85-94.
MaxpoolModule(m) ==
    IF m.size = 2 /\ m.stride = 1
    THEN [Module("Sequential") EXCEPT !.subs = <<"ZeroPad2d", "MaxPool2d">>,
              !.kernel_size = m.size, !.stride = m.stride,
              !.padding = (m.size - 1) \div 2]
    ELSE [Module("MaxPool2d") EXCEPT
              !.kernel_size = m.size, !.stride = m.stride,
              !.padding = (m.size - 1) \div 2]

BuildMaxpool ==
    /\ AtLayer("maxpool")
    /\ Register(MaxpoolModule(module_defines[NextIndex + 1]), filters, {},
                yolo_index)
    /\ UNCHANGED <<fwd_vars, head_vars, fuse_vars, train_vars>>

\* Lines 96-121: avgpool, semodule, shuffle, dense.
SequentialOf(m) ==
    [Module("Sequential") EXCEPT
        !.subs = CASE m.type = "avgpool" -> <<"AvgPool2d">>
                   [] m.type = "semodule" -> <<"SeModule">>
                   [] m.type = "shuffle" -> <<"ShuffleBlock">>
                   [] m.type = "dense" ->
                        <<"Linear">> \o (IF m.batch_normalize
                                         THEN <<"BatchNorm2d">> ELSE <<>>),
        !.kernel_size = m.size, !.stride = m.stride,
        !.padding = IF m.type = "avgpool" THEN (m.size - 1) \div 2 ELSE 0,
        !.bias = (m.type = "dense" /\ ~m.batch_normalize)]

BuildSequential ==
    /\ \E t \in {"avgpool", "semodule", "shuffle", "dense"} : AtLayer(t)
    /\ Register(SequentialOf(module_defines[NextIndex + 1]), filters, {},
                yolo_index)
    /\ UNCHANGED <<fwd_vars, head_vars, fuse_vars, train_vars>>

\* Lines 123-130 (ONNX_EXPORT off).
BuildUpsample ==
    /\ AtLayer("upsample")
    /\ Register([Module("Upsample") EXCEPT
                    !.stride = module_defines[NextIndex + 1].stride],
                filters, {}, yolo_index)
    /\ UNCHANGED <<fwd_vars, head_vars, fuse_vars, train_vars>>

\* Line 135: the index into output_filters a reference is looked up at.
RouteFilterIndex(layer) == IF layer > 0 THEN layer + 1 ELSE layer

\* Lines 135-136: None when a lookup is out of range (IndexError).
RouteFilters(layers, of) ==
    IF \A k \in 1..Len(layers) : PyIndexOK(Len(of), RouteFilterIndex(layers[k]))
    THEN <<SumSeq([k \in 1..Len(layers) |->
                     of[PyPos(Len(of), RouteFilterIndex(layers[k]))]])>>
    ELSE <<>>

\* Lines 137-138, 144-145.
RoutedBy(k, layers) == {NormIndex(k, layers[j]) : j \in 1..Len(layers)}

\* Lines 133-138.
BuildRoute ==
    /\ AtLayer("route")
    /\ LET m == module_defines[NextIndex + 1]
           f == RouteFilters(m.layers, output_filters)
       IN IF f = <<>>
          THEN /\ bpc' = "error"
               /\ i' = <<NextIndex>>
               /\ UNCHANGED <<hyper_params, module_defines, output_filters,
                              filters, module_list, routs, yolo_index,
                              routs_binary>>
          ELSE Register(Module("Sequential"), f,
                        RoutedBy(NextIndex, m.layers), yolo_index)
    /\ UNCHANGED <<fwd_vars, head_vars, fuse_vars, train_vars>>

\* Lines 141-147.
BuildShortcut ==
    /\ AtLayer("shortcut")
    /\ LET m == module_defines[NextIndex + 1] IN
       Register([Module("WeightFeatureFusion") EXCEPT !.layers = m.from],
                <<output_filters[Len(output_filters)]>>,
                RoutedBy(NextIndex, m.from), yolo_index)
    /\ UNCHANGED <<fwd_vars, head_vars, fuse_vars, train_vars>>

\* YOLOLayer.__init__ with line 272 as `self.no = nc + 4`.
YOLOLayerInitNoObjectness(nanchors, nc, idx, layers) ==
    [Module("YOLOLayer") EXCEPT
        !.layers = layers, !.na = nanchors, !.nc = nc, !.no = nc + 4,
        !.nx = 0, !.ny = 0, !.index = idx]

\* YOLOLayer.__init__, lines 264-274.
YOLOLayerInit(nanchors, nc, idx, layers) ==
    [Module("YOLOLayer") EXCEPT
        !.layers = layers, !.na = nanchors, !.nc = nc, !.no = nc + 5,
        !.nx = 0, !.ny = 0, !.index = idx]

\* Line 161, in halves: -4.5.
bo == -9

\* Line 163: math.log(1 / (nc - 0.99)) raises ValueError unless its argument
\* is positive, that is unless nc >= 1.
ClsBiasDefined(nc) == nc >= 1

\* Line 165: j, or Raised when layers[yolo_index] is out of range.
BiasTarget(m, layers, yi) ==
    IF ~m.hasFrom THEN Returned(-1)
    ELSE IF PyIndexOK(Len(layers), yi)
    THEN Returned(layers[PyPos(Len(layers), yi)])
    ELSE Raised

\* Line 166 and the slice of line 168: the entries of module_list[j][0].bias.
\* <<>> when reading them raises: j is out of range, module_list[j] is no
\* nn.Sequential or an empty one, its first sublayer has no attribute bias,
\* or its bias is None or has no entry.
TargetBias(mods, j) ==
    IF ~PyIndexOK(Len(mods), j) THEN <<>>
    ELSE LET t == mods[PyPos(Len(mods), j)] IN
         IF t.kind # "Sequential" \/ t.subs = <<>> THEN <<>>
         ELSE IF t.subs[1] \notin {"Conv2d", "Linear"} THEN <<>>
         ELSE t.bias_

\* The mean of the numbers s, a sequence of bias entries (exact where the sum
\* is a multiple of the length, as for the biases of InitialBias with one or
\* two anchors).
Mean(s) ==
    [v |-> SumSeq([k \in 1..Len(s) |-> s[k].v]) \div Len(s),
     bc |-> SumSeq([k \in 1..Len(s) |-> s[k].bc]) \div Len(s)]

\* Lines 168-171 on the entries b of bias_: the first no * na of them, viewed
\* as na rows, have column 4 shifted to the mean bo and the columns from 5
\* on shifted to the mean bc (nothing when there is no such column).
SmartBias(b, na, no) ==
    LET n == IF Len(b) < no * na THEN Len(b) ELSE no * na
        cols == n \div na
        obj == Mean([r \in 1..na |-> b[(r - 1) * cols + 5]])
        cls == IF cols <= 5 THEN BiasEntry(0)
               ELSE Mean([q \in 1..(na * (cols - 5)) |->
                            b[((q - 1) \div (cols - 5)) * cols + 6
                              + ((q - 1) % (cols - 5))]])
    IN [k \in 1..Len(b) |->
          IF k > n THEN b[k]
          ELSE IF (k - 1) % cols = 4
          THEN [b[k] EXCEPT !.v = @ + bo - obj.v, !.bc = @ - obj.bc]
          ELSE IF (k - 1) % cols >= 5
          THEN [b[k] EXCEPT !.v = @ - cls.v, !.bc = @ + 1 - cls.bc]
          ELSE b[k]]

\* Lines 160-175: the modules built so far after the attempt.  Whatever the
\* try block raises is caught at line 174, before anything was written:
\*   line 163 on nc < 1; line 165 or 166 on a missing target or bias;
\*   line 168 when the entries cannot be viewed as na rows;
\*   line 169 when there is no column 4, and also when autograd refuses the
\*   in-place update of a view of a leaf parameter that requires grad, which
\*   depends on the torch build (inplace says whether it is allowed).
InitializeBias(mods, m, layer, yi, inplace) ==
    LET j == BiasTarget(m, layer.layers, yi)
        b == IF j = Raised THEN <<>> ELSE TargetBias(mods, j[1])
        n == IF Len(b) < layer.no * layer.na THEN Len(b)
             ELSE layer.no * layer.na
    IN IF \/ ~ClsBiasDefined(layer.nc)
          \/ b = <<>>
          \/ layer.na = 0
          \/ n % layer.na # 0
          \/ n \div layer.na <= 4
          \/ ~inplace
       THEN mods
       ELSE [mods EXCEPT ![PyPos(Len(mods), j[1])].bias_ =
                             SmartBias(b, layer.na, layer.no)]

\* Lines 149-175.  Nothing is added to routs for a yolo layer.
BuildYolo ==
    /\ AtLayer("yolo")
    /\ LET m == module_defines[NextIndex + 1]
           layers == IF m.hasFrom THEN m.from ELSE <<>>
           layer == YOLOLayerInit(m.nanchors, m.classes, yolo_index + 1, layers)
       IN \E inplace \in BOOLEAN :
             RegisterOn(InitializeBias(module_list, m, layer, yolo_index + 1,
                                       inplace),
                        layer, filters, {}, yolo_index + 1)
    /\ UNCHANGED <<fwd_vars, head_vars, fuse_vars, train_vars>>

\* Lines 177-178.
BuildUnrecognized ==
    /\ bpc = "loop"
    /\ NextIndex < Len(module_defines)
    /\ module_defines[NextIndex + 1].type \notin RecognisedTypes
    /\ Register(Module("Sequential"), filters, {}, yolo_index)
    /\ UNCHANGED <<fwd_vars, head_vars, fuse_vars, train_vars>>

\* Lines 184-186: [False] * (i + 1), then True at every index of routs.
RoutsBinary(n, r) == [k \in 1..n |-> \E j \in r : PyPos(n, j) = k]

\* Lines 184-187.  With no layer spec the loop never bound i: line 184 raises.
CreateModulesReturn ==
    /\ bpc = "loop"
    /\ NextIndex = Len(module_defines)
    /\ IF i = <<>> \/ \E j \in routs : ~PyIndexOK(i[1] + 1, j)
       THEN bpc' = "error" /\ UNCHANGED routs_binary
       ELSE bpc' = "done" /\ routs_binary' = RoutsBinary(i[1] + 1, routs)
    /\ UNCHANGED <<hyper_params, module_defines, i, output_filters, filters,
                   module_list, routs, yolo_index>>
    /\ UNCHANGED <<fwd_vars, head_vars, fuse_vars, train_vars>>

CreateModules ==
    \/ BuildConvolutional
    \/ BuildMaxpool
    \/ BuildSequential
    \/ BuildUpsample
    \/ BuildRoute
    \/ BuildShortcut
    \/ BuildYolo
    \/ BuildUnrecognized
    \/ CreateModulesReturn

\* -------------------------------------------------------- Darknet.forward
\* A tensor of the executor: its shape (bs, c, h, w) and where it was made:
\* src is the index of the layer whose step made it (-1: the network input),
\* op the operation ("input", "module", "fusion", "cat", "interpolate").
Tensor(bs, c, h, w, src, op) ==
    [empty |-> FALSE, bs |-> bs, c |-> c, h |-> h, w |-> w, src |-> src,
     op |-> op]

\* The empty list [] that line 231 appends for a layer that is not routed.
Placeholder ==
    [empty |-> TRUE, bs |-> 0, c |-> 0, h |-> 0, w |-> 0, src |-> -1,
     op |-> "none"]

\* The spatial size a convolution or a pooling window leaves.
WindowOut(h, k, s, p) == (h + 2 * p - k) \div s + 1

\* module(x) of line 216 for the objects create_modules builds for
\* convolutional, maxpool and upsample layers.  Conv2d raises on an input
\* whose channel count is not in_channels, a window larger than the padded
\* input raises, and BatchNorm2d raises in training mode on a single value
\* per channel.
ApplyModule(mod, t, k, train) ==
    IF t.empty THEN Raised
    ELSE IF mod.kind = "Sequential" /\ mod.subs # <<>> /\ mod.subs[1] = "Conv2d"
    THEN LET h == WindowOut(t.h, mod.kernel_size, mod.stride, mod.padding)
             w == WindowOut(t.w, mod.kernel_size, mod.stride, mod.padding)
         IN IF t.c # mod.in_channels \/ h < 1 \/ w < 1 THEN Raised
            ELSE IF /\ \E j \in 1..Len(mod.subs) : mod.subs[j] = "BatchNorm2d"
                    /\ train
                    /\ t.bs * h * w = 1
            THEN Raised
            ELSE Returned(Tensor(t.bs, mod.out_channels, h, w, k, "module"))
    ELSE IF mod.kind = "Sequential" /\ mod.subs = <<"ZeroPad2d", "MaxPool2d">>
    THEN LET h == WindowOut(t.h + 1, mod.kernel_size, mod.stride, mod.padding)
             w == WindowOut(t.w + 1, mod.kernel_size, mod.stride, mod.padding)
         IN Returned(Tensor(t.bs, t.c, h, w, k, "module"))
    ELSE IF mod.kind = "MaxPool2d"
    THEN LET h == WindowOut(t.h, mod.kernel_size, mod.stride, mod.padding)
             w == WindowOut(t.w, mod.kernel_size, mod.stride, mod.padding)
         IN IF h < 1 \/ w < 1 THEN Raised
            ELSE Returned(Tensor(t.bs, t.c, h, w, k, "module"))
    ELSE IF mod.kind = "Upsample"
    THEN Returned(Tensor(t.bs, t.c, t.h * mod.stride, t.w * mod.stride, k,
                         "module"))
    ELSE Raised

\* out[k] of lines 222, 225, 227 and of WeightFeatureFusion: Python indexing.
OutAt(o, k) == o[PyPos(Len(o), k)]

\* WeightFeatureFusion.forward(x, out): x plus each out[layers[j]].  A
\* placeholder among them, or one of another batch or spatial size, raises.
\* Where channel counts differ the leading channels are summed and the excess
\* of the larger tensor passes through.
RECURSIVE FeatureFusion(_, _, _, _)
FeatureFusion(layers, t, o, k) ==
    IF t.empty THEN Raised
    ELSE IF layers = <<>> THEN Returned(t)
    ELSE IF ~PyIndexOK(Len(o), Head(layers)) THEN Raised
    ELSE LET a == OutAt(o, Head(layers)) IN
         IF a.empty \/ a.bs # t.bs \/ a.h # t.h \/ a.w # t.w THEN Raised
         ELSE FeatureFusion(Tail(layers),
                            Tensor(t.bs, Max(t.c, a.c), t.h, t.w, k, "fusion"),
                            o, k)

\* torch.cat([out[i] for i in layers], 1) of lines 225 and 228.
CatRefs(layers, o, k) ==
    IF layers = <<>> THEN Raised
    ELSE IF \E j \in 1..Len(layers) : ~PyIndexOK(Len(o), layers[j]) THEN Raised
    ELSE LET ts == [j \in 1..Len(layers) |-> OutAt(o, layers[j])] IN
         IF \/ \E j \in 1..Len(ts) : ts[j].empty
            \/ \E j \in 1..Len(ts) :
                  ts[j].bs # ts[1].bs \/ ts[j].h # ts[1].h \/ ts[j].w # ts[1].w
         THEN Raised
         ELSE Returned(Tensor(ts[1].bs, SumSeq([j \in 1..Len(ts) |-> ts[j].c]),
                              ts[1].h, ts[1].w, k, "cat"))

\* Line 227 with scale_factor=[1, 1]: nothing halved.
InterpolateSameSize(t, k) ==
    IF t.empty THEN Raised
    ELSE Returned(Tensor(t.bs, t.c, t.h, t.w, k, "interpolate"))

\* F.interpolate(t, scale_factor=[0.5, 0.5]) of line 227.
Interpolate(t, k) ==
    IF t.empty \/ t.h \div 2 < 1 \/ t.w \div 2 < 1 THEN Raised
    ELSE Returned(Tensor(t.bs, t.c, t.h \div 2, t.w \div 2, k, "interpolate"))

\* ------------------------------------------------------ YOLOLayer.forward
\* Line 313 as `if self.nx != nx`.
GridChangedWidthOnly(layer, nx, ny) == layer.nx # nx

\* Line 313: whether the cached grid differs from the input's.
GridChanged(layer, nx, ny) == <<layer.nx, layer.ny>> # <<nx, ny>>

\* create_grids(self, image_size, ng=(nx, ny)): rebuilds the grid geometry
\* and caches the grid size it was built for.
create_grids(layer, ng) == [layer EXCEPT !.nx = ng[1], !.ny = ng[2]]

\* Lines 312-318: the layer after the cache check, for an input of grid
\* (ny, nx).
CheckGrid(layer, nx, ny) ==
    IF GridChanged(layer, nx, ny) THEN create_grids(layer, <<nx, ny>>)
    ELSE layer

\* Line 321: pred.view(bs, na, no, ny, nx) raises unless it keeps the number
\* of elements of pred, of shape (bs, c, h, w).
ViewOK(layer, bs, c, h, w) ==
    bs * c * h * w = bs * layer.na * layer.no * layer.ny * layer.nx

\* The shape of the prediction after the permute of lines 321-322.
PredShape(layer, bs) == <<bs, layer.na, layer.ny, layer.nx, layer.no>>

\* The shape of io.view(bs, -1, no) of line 351, for io of shape shp.
FlatShape(layer, shp) ==
    <<shp[1], (shp[1] * shp[2] * shp[3] * shp[4] * shp[5]) \div (shp[1] * layer.no),
      layer.no>>

\* module(x, image_size, out) of line 230 on shapes: the layer afterwards and
\* what is returned, pred in training mode and (io, pred) otherwise.
YoloCall(layer, t, k, train) ==
    IF t.empty THEN [layer |-> layer, ret |-> Raised]
    ELSE LET l2 == CheckGrid(layer, t.w, t.h) IN
         IF ~ViewOK(l2, t.bs, t.c, t.h, t.w) THEN [layer |-> l2, ret |-> Raised]
         ELSE LET p == [shape |-> PredShape(l2, t.bs), layer |-> k] IN
              [layer |-> l2,
               ret |-> Returned([io |-> IF train THEN <<>>
                                        ELSE FlatShape(l2, p.shape),
                                 p |-> p])]

\* ------------------------------------------------ Darknet.forward, steps
\* The spatial sizes (h, w) of the images forward is called on.
InputSizes == {<<2, 2>>, <<2, 4>>}

NoResult == [kind |-> "none", io |-> <<>>, p |-> <<>>]

\* Line 210: the lists a call starts with.
FreshList == <<>>

\* Lines 208-210.  model.train() or model.eval() may run between two calls.
ForwardStart ==
    /\ bpc = "done"
    /\ fpc # "loop"
    /\ \E tr \in BOOLEAN, sz \in InputSizes :
          /\ training' = tr
          /\ x' = Tensor(1, hyper_params.channels, sz[1], sz[2], -1, "input")
          /\ image_size' = sz
    /\ out' = FreshList
    /\ yolo_out' = FreshList
    /\ fwd_i' = 0
    /\ fpc' = "loop"
    /\ fwd_result' = NoResult
    /\ UNCHANGED <<build_vars, head_vars, fuse_vars, train_vars>>

\* The loop of line 212 is at a layer of the given types.
FwdAt(types) ==
    /\ fpc = "loop"
    /\ fwd_i < Len(module_defines)
    /\ fwd_i < Len(module_list)
    /\ module_defines[fwd_i + 1].type \in types

\* Line 231 as `out.append(x)`: every output retained.
HistoryEntryKeepAll(routed, t) == t

\* Line 231, after the branch of the layer's type has run.
HistoryEntry(routed, t) == IF routed THEN t ELSE Placeholder

FwdStep(newx, history, newyolo, newmodules) ==
    /\ x' = newx
    /\ out' = Append(history, HistoryEntry(routs_binary[fwd_i + 1], newx))
    /\ yolo_out' = newyolo
    /\ module_list' = newmodules
    /\ fwd_i' = fwd_i + 1
    /\ UNCHANGED <<fpc, training, image_size, fwd_result>>
    /\ UNCHANGED <<hyper_params, module_defines, bpc, i, output_filters,
                   filters, routs, yolo_index, routs_binary>>
    /\ UNCHANGED <<head_vars, fuse_vars, train_vars>>

\* An exception leaves forward: the call is over and returns nothing.
FwdRaise(newout, newmodules) ==
    /\ fpc' = "error"
    /\ out' = newout
    /\ module_list' = newmodules
    /\ UNCHANGED <<training, fwd_i, x, image_size, yolo_out, fwd_result>>
    /\ UNCHANGED <<hyper_params, module_defines, bpc, i, output_filters,
                   filters, routs, yolo_index, routs_binary>>
    /\ UNCHANGED <<head_vars, fuse_vars, train_vars>>

\* Lines 215-216.
FwdModule ==
    /\ FwdAt({"convolutional", "upsample", "maxpool"})
    /\ LET r == ApplyModule(module_list[fwd_i + 1], x, fwd_i, training) IN
       IF r = Raised THEN FwdRaise(out, module_list)
       ELSE FwdStep(r[1], out, yolo_out, module_list)

\* Lines 217-218.
FwdShortcut ==
    /\ FwdAt({"shortcut"})
    /\ LET r == FeatureFusion(module_list[fwd_i + 1].layers, x, out, fwd_i) IN
       IF r = Raised THEN FwdRaise(out, module_list)
       ELSE FwdStep(r[1], out, yolo_out, module_list)

\* Lines 219-222: a route with one reference.
FwdRouteOne ==
    /\ FwdAt({"route"})
    /\ LET layers == module_defines[fwd_i + 1].layers IN
       /\ Len(layers) = 1
       /\ IF ~PyIndexOK(Len(out), layers[1]) THEN FwdRaise(out, module_list)
          ELSE FwdStep(OutAt(out, layers[1]), out, yolo_out, module_list)

\* Lines 223-228: a route with several references (with none, torch.cat
\* raises twice).
FwdRouteCat ==
    /\ FwdAt({"route"})
    /\ LET layers == module_defines[fwd_i + 1].layers
           first == CatRefs(layers, out, fwd_i)
       IN /\ Len(layers) # 1
          /\ IF first # Raised THEN FwdStep(first[1], out, yolo_out, module_list)
             ELSE IF Len(layers) < 2 \/ ~PyIndexOK(Len(out), layers[2])
             THEN FwdRaise(out, module_list)
             ELSE LET half == Interpolate(OutAt(out, layers[2]), fwd_i) IN
                  IF half = Raised THEN FwdRaise(out, module_list)
                  ELSE LET out2 == [out EXCEPT
                                       ![PyPos(Len(out), layers[2])] = half[1]]
                           again == CatRefs(layers, out2, fwd_i)
                       IN IF again = Raised THEN FwdRaise(out2, module_list)
                          ELSE FwdStep(again[1], out2, yolo_out, module_list)

\* Lines 229-230.
FwdYolo ==
    /\ FwdAt({"yolo"})
    /\ LET r == YoloCall(module_list[fwd_i + 1], x, fwd_i, training)
           mods == [module_list EXCEPT ![fwd_i + 1] = r.layer]
       IN IF r.ret = Raised THEN FwdRaise(out, mods)
          ELSE FwdStep(x, out, Append(yolo_out, r.ret[1]), mods)

\* A layer of any other type: no branch of lines 215-230 is taken.
FwdSkip ==
    /\ FwdAt({module_defines[k].type : k \in 1..Len(module_defines)}
             \ {"convolutional", "upsample", "maxpool", "shortcut", "route",
                "yolo"})
    /\ FwdStep(x, out, yolo_out, module_list)

\* Line 240 as `return io[0], p`: the first scale alone.
CatDetectionsFirstOnly(ios) == <<ios[1]>>

\* torch.cat(io, 1) of line 240: raises unless the decoded tensors agree in
\* every axis but the detection axis.
CatDetections(ios) ==
    IF \E j \in 1..Len(ios) : ios[j][1] # ios[1][1] \/ ios[j][3] # ios[1][3]
    THEN Raised
    ELSE Returned(<<ios[1][1], SumSeq([j \in 1..Len(ios) |-> ios[j][2]]),
                    ios[1][3]>>)

\* Lines 233-240 (ONNX_EXPORT off).  Unpacking zip(*yolo_out) into (io, p)
\* raises when yolo_out is empty.
ForwardResult(train, yo) ==
    IF train
    THEN Returned([kind |-> "train", io |-> <<>>,
                   p |-> [j \in 1..Len(yo) |-> yo[j].p]])
    ELSE IF yo = <<>> THEN Raised
    ELSE LET io == CatDetections([j \in 1..Len(yo) |-> yo[j].io]) IN
         IF io = Raised THEN Raised
         ELSE Returned([kind |-> "infer", io |-> io[1],
                        p |-> [j \in 1..Len(yo) |-> yo[j].p]])

ForwardReturn ==
    /\ fpc = "loop"
    /\ ~(fwd_i < Len(module_defines) /\ fwd_i < Len(module_list))
    /\ LET r == ForwardResult(training, yolo_out) IN
       IF r = Raised THEN FwdRaise(out, module_list)
       ELSE /\ fpc' = "done"
            /\ fwd_result' = r[1]
            /\ UNCHANGED <<training, fwd_i, x, image_size, out, yolo_out>>
            /\ UNCHANGED <<build_vars, head_vars, fuse_vars, train_vars>>

Forward ==
    \/ ForwardStart
    \/ FwdModule
    \/ FwdShortcut
    \/ FwdRouteOne
    \/ FwdRouteCat
    \/ FwdYolo
    \/ FwdSkip
    \/ ForwardReturn

\* ------------------------------------------------------------ Darknet.fuse
\* The position (from 1) of the first BatchNorm2d among the sublayers, 0 when
\* there is none: the loop of lines 248-249.
BnIndex(subs) ==
    IF \E k \in 1..Len(subs) : subs[k] = "BatchNorm2d"
    THEN CHOOSE k \in 1..Len(subs) :
            /\ subs[k] = "BatchNorm2d"
            /\ \A j \in 1..(k - 1) : subs[j] # "BatchNorm2d"
    ELSE 0

\* fuse_conv_and_bn(conv, bn): a convolution with a bias, the normalisation
\* folded into its weight and bias.  On a sublayer that is no convolution it
\* either raises or returns some module, "fused" here (anyfused says which).
fuse_conv_and_bn(conv, anyfused) ==
    IF conv = "Conv2d" THEN Returned("Conv2d")
    ELSE IF anyfused THEN Returned("fused")
    ELSE Raised

\* Lines 247-254 for one entry a of the module list: the entry line 255
\* appends.  a[i - 1] is Python indexing: before a batch-norm in first place
\* comes the last sublayer.
FuseEntry(a, anyfused) ==
    IF a.kind # "Sequential" \/ BnIndex(a.subs) = 0 THEN Returned(a)
    ELSE LET k == BnIndex(a.subs)
             conv == a.subs[PyPos(Len(a.subs), k - 2)]
             f == fuse_conv_and_bn(conv, anyfused)
         IN IF f = Raised THEN Raised
            ELSE Returned([a EXCEPT
                     !.subs = <<f[1]>> \o SubSeq(a.subs, k + 1, Len(a.subs)),
                     !.bias = TRUE,
                     !.fused = TRUE])

\* Lines 245-255: fused_list, or Raised when fuse_conv_and_bn raises.
FusedList(mods, anyfused) ==
    IF \E k \in 1..Len(mods) : FuseEntry(mods[k], anyfused) = Raised
    THEN Raised
    ELSE Returned([k \in 1..Len(mods) |-> FuseEntry(mods[k], anyfused)[1]])

\* Darknet.fuse, lines 242-257, on a constructed model.
Fuse ==
    /\ bpc = "done"
    /\ fpc # "loop"
    /\ Len(fuse_log) < MaxFuseCalls
    /\ \E anyfused \in BOOLEAN :
          LET fl == FusedList(module_list, anyfused) IN
          IF fl = Raised
          THEN /\ fuse_log' = Append(fuse_log, "raised")
               /\ UNCHANGED module_list
          ELSE /\ fuse_log' = Append(fuse_log, "done")
               /\ module_list' = fl[1]
    /\ UNCHANGED <<hyper_params, module_defines, bpc, i, output_filters,
                   filters, routs, yolo_index, routs_binary>>
    /\ UNCHANGED <<fwd_vars, head_vars, train_vars>>

\* ------------------------------- YOLOLayer.forward, element by element
\* A tensor with its elements: shape, and data, the elements of the
\* contiguous tensor in row-major order.  An element is a record: v is the raw
\* number it started as, f the operations applied to it since, in order, and
\* g the grid coordinate or the anchor entry the decode combined it with.
Elem(v) == [v |-> v, f |-> <<>>, g |-> <<>>]

RECURSIVE Numel(_)
Numel(shape) == IF shape = <<>> THEN 1 ELSE Head(shape) * Numel(Tail(shape))

\* The strides of a contiguous tensor: stride d is the number of elements one
\* step along axis d passes.
Strides(shape) ==
    [d \in 1..Len(shape) |-> Numel(SubSeq(shape, d + 1, Len(shape)))]

\* The index along axis d (0-based) of the element at flat offset n (0-based)
\* of a contiguous tensor.
AxisIndex(n, shape, strides, d) == (n \div strides[d]) % shape[d]

\* t.view(*shape): the same elements under another shape.
View(t, shape) == [shape |-> shape, data |-> t.data]

\* t.permute(*perm).contiguous(): axis d of the result is axis perm[d] of t,
\* so the element at multi-index m of the result is the element of t whose
\* index along axis perm[d] is m[d].
Permute(t, perm) ==
    LET shape == [d \in 1..Len(perm) |-> t.shape[perm[d] + 1]]
        to == Strides(shape)
        from == Strides(t.shape)
    IN [shape |-> shape,
        data |-> [n \in 1..Numel(shape) |->
                    t.data[1 + SumSeq([d \in 1..Len(perm) |->
                                AxisIndex(n - 1, shape, to, d)
                                * from[perm[d] + 1]])]]]

\* Lines 321-322 with the grid axes swapped: permute(0, 1, 4, 3, 2).
PredPermSwapped == <<0, 1, 4, 3, 2>>

\* Lines 321-322: the permutation applied after the view.
PredPerm == <<0, 1, 3, 4, 2>>

\* Lines 321-322.
Reshape(layer, pred, bs) ==
    Permute(View(pred, <<bs, layer.na, layer.no, layer.ny, layer.nx>>), PredPerm)

\* Line 344 as `io = pred`: no copy.
CloneAlias(st, r) == [store |-> st, ref |-> r]

\* Tensors are held in a store, a sequence of tensors; a variable of the code
\* is a position in it, so that two variables may name one tensor.
\* Line 344, pred.clone(): a new tensor with the elements of st[r].
Clone(st, r) == [store |-> Append(st, st[r]), ref |-> Len(st) + 1]

\* The elementwise operations of the decode, each on the element e at anchor
\* a, cell (y, xx), output o.
\*   line 345: sigmoid, plus grid_xy, which holds (x, y) at cell (y, x);
\*   line 347: exp, times anchor_wh, which holds anchor a's (w, h);
\*   line 348: times stride;  line 349: sigmoid.
DecodeElem(line, e, a, y, xx, o) ==
    CASE line = 345 ->
           [e EXCEPT !.f = e.f \o <<"sigmoid", "+grid_xy">>,
                     !.g = IF o = 0 THEN <<"x", xx>> ELSE <<"y", y>>]
      [] line = 347 ->
           [e EXCEPT !.f = e.f \o <<"exp", "*anchor_wh">>,
                     !.g = IF o = 2 THEN <<"w", a>> ELSE <<"h", a>>]
      [] line = 348 -> [e EXCEPT !.f = e.f \o <<"*stride">>]
      [] line = 349 -> [e EXCEPT !.f = e.f \o <<"sigmoid">>]

\* The in-place update, by the operation of the given line, of the elements
\* of st[r] whose index o along the last axis satisfies lo <= o < hi.
UpdateSlice(st, r, lo, hi, line) ==
    LET shape == st[r].shape
        strides == Strides(shape)
    IN [st EXCEPT ![r].data =
          [n \in 1..Len(st[r].data) |->
              LET o == AxisIndex(n - 1, shape, strides, 5) IN
              IF lo <= o /\ o < hi
              THEN DecodeElem(line, st[r].data[n],
                              AxisIndex(n - 1, shape, strides, 2),
                              AxisIndex(n - 1, shape, strides, 3),
                              AxisIndex(n - 1, shape, strides, 4), o)
              ELSE st[r].data[n]]]

\* Lines 344-351: io, decoded and flattened, and pred as the decode leaves it.
Decode(layer, st, pred, bs) ==
    LET c == Clone(st, pred)
        s1 == UpdateSlice(c.store, c.ref, 0, 2, 345)
        s2 == UpdateSlice(s1, c.ref, 2, 4, 347)
        s3 == UpdateSlice(s2, c.ref, 0, 4, 348)
        s4 == UpdateSlice(s3, c.ref, 4, layer.no, 349)
    IN [io |-> View(s4[c.ref],
                    <<bs, Numel(s4[c.ref].shape) \div (bs * layer.no), layer.no>>),
        pred |-> s4[pred]]

NoTensor == [shape |-> <<>>, data |-> <<>>]

\* The head sizes (number of anchors, number of classes) a head is built with.
HeadSizes == {<<1, 0>>, <<2, 1>>}

NoHeadResult == [io |-> NoTensor, p |-> NoTensor]

\* A caller calls the head's forward, in training or in inference mode, on a
\* contiguous pred of shape (bs, c, ny, nx) whose element at offset n is the
\* number n.
YoloEnter ==
    /\ ypc # "called"
    /\ \E tr \in BOOLEAN, bs \in 1..MaxBatch, ny \in 1..MaxGrid,
          nx \in 1..MaxGrid, c \in {head.na * head.no, 4} :
        LET shape == <<bs, c, ny, nx>> IN
        /\ pred_in' = [shape |-> shape,
                       data |-> [n \in 1..Numel(shape) |-> Elem(n)]]
        /\ head_training' = tr
    /\ ypc' = "called"
    /\ rebuilt' = FALSE
    /\ head_result' = NoHeadResult
    /\ UNCHANGED head
    /\ UNCHANGED <<build_vars, fwd_vars, fuse_vars, train_vars>>

\* YOLOLayer.forward, lines 282-351 with ASFF and ONNX_EXPORT off.
YoloForward ==
    /\ ypc = "called"
    /\ LET bs == pred_in.shape[1]
           c == pred_in.shape[2]
           ny == pred_in.shape[3]
           nx == pred_in.shape[4]
           layer == CheckGrid(head, nx, ny)
       IN /\ head' = layer
          /\ rebuilt' = GridChanged(head, nx, ny)
          /\ IF ~ViewOK(layer, bs, c, ny, nx)
             THEN ypc' = "error" /\ head_result' = NoHeadResult
             ELSE LET st == <<Reshape(layer, pred_in, bs)>> IN
                  /\ ypc' = "done"
                  /\ head_result' =
                       IF head_training THEN [io |-> NoTensor, p |-> st[1]]
                       ELSE LET d == Decode(layer, st, 1, bs) IN
                            [io |-> d.io, p |-> d.pred]
    /\ UNCHANGED <<pred_in, head_training>>
    /\ UNCHANGED <<build_vars, fwd_vars, fuse_vars, train_vars>>

\* ---------------------------------------------------------------- train.py
\* None and a value v, for the entries of a checkpoint that may be None.
None == <<>>
Some(v) == <<v>>

\* Evaluation results (P, R, mAP, F1, losses) are numbered; results number r
\* has fitness r, and number 0 is the tuple of zeros of line 237.
EvalResults == 0..MaxFitness

\* utils.fitness(results): a weighted combination of P, R, mAP and F1.
fitness(r) == r

\* Line 237.
ZeroResults == 0

\* Line 247.
warmup_epoch == 3

\* A tensor of a state_dict: its shape, and where its values come from
\* ("init": the model as constructed, "ckpt": the file of args.weights).
Param(shape, from) == [shape |-> shape, from |-> from]

\* model.state_dict() of the model of line 111.
InitialStateDict == [w |-> Param(<<2, 6>>, "init"), b |-> Param(<<12>>, "init")]

\* The state_dicts of the checkpoints a run is started from: the model's own
\* parameters; one missing; one of another number of elements; one of the same
\* number of elements and another shape; one the model does not have.
CheckpointStateDicts ==
    {[w |-> Param(<<2, 6>>, "ckpt"), b |-> Param(<<12>>, "ckpt")],
     [w |-> Param(<<2, 6>>, "ckpt")],
     [w |-> Param(<<2, 2>>, "ckpt"), b |-> Param(<<12>>, "ckpt")],
     [w |-> Param(<<3, 4>>, "ckpt"), b |-> Param(<<12>>, "ckpt")],
     [w |-> Param(<<2, 6>>, "ckpt"), b |-> Param(<<12>>, "ckpt"),
      x |-> Param(<<4>>, "ckpt")]}

\* Lines 388-394 and 401-405: a checkpoint record.
Checkpoint(e, bf, tr, sd, opt) ==
    [epoch |-> e, best_fitness |-> bf, training_results |-> tr, model |-> sd,
     optimizer |-> opt]

NoFile == Checkpoint(-1, None, None, [w |-> Param(<<>>, "none")], None)

\* The files args.weights names: the last checkpoint of an epoch that was not
\* the final one (lines 388-394), a best checkpoint (lines 401-405), and last
\* checkpoints of other architectures.
WeightsFiles ==
    {Checkpoint(e, Some(1), Some(e + 1), InitialStateDict, Some("SGD")) :
        e \in 0..(MaxEpochs - 2)}
    \cup {Checkpoint(-1, None, None, InitialStateDict, None)}
    \cup {Checkpoint(0, Some(1), Some(1), sd, Some("SGD")) :
            sd \in CheckpointStateDicts}

\* model.load_state_dict(sd, strict=False) on a model of state_dict md:
\* Raised when an entry of sd has another shape than the model's (a key the
\* model lacks, or one sd lacks, is passed over).
load_state_dict(md, sd) ==
    IF \E k \in (DOMAIN sd) \cap (DOMAIN md) : sd[k].shape # md[k].shape
    THEN Raised
    ELSE Returned([k \in DOMAIN md |-> IF k \in DOMAIN sd THEN sd[k] ELSE md[k]])

\* Lines 141-143: the dict comprehension reads model.state_dict()[k] for every
\* key k of the file, which raises KeyError for a key the model lacks; the
\* entries of another number of elements are dropped, the rest is loaded.
LoadModel(md, sd) ==
    IF \E k \in DOMAIN sd : k \notin DOMAIN md THEN Raised
    ELSE LET kept == {k \in DOMAIN sd :
                         Numel(md[k].shape) = Numel(sd[k].shape)}
         IN load_state_dict(md, [k \in kept |-> sd[k]])

\* An exception leaves train().
TrainRaise ==
    /\ tpc' = "raised"
    /\ UNCHANGED <<args, weights_file, batches_num, epoch, start_epoch,
                   best_fitness, prebias, results, index, model, optimizer,
                   results_txt, saved, train_return, best_results, epoch_log>>

\* Lines 137-167: the weights are loaded.  A KeyError is raised anew at line
\* 148; any other exception of line 143 leaves train() as it is.
LoadWeights ==
    /\ tpc = "load"
    /\ IF args.weights = ""
       THEN /\ tpc' = "setup"
            /\ UNCHANGED <<args, weights_file, batches_num, epoch, start_epoch,
                           best_fitness, prebias, results, index, model,
                           optimizer, results_txt, saved, train_return,
                           best_results, epoch_log>>
       ELSE LET sd == LoadModel(model.state_dict, weights_file.model) IN
            IF sd = Raised THEN TrainRaise
            ELSE /\ tpc' = "setup"
                 /\ model' = [model EXCEPT !.state_dict = sd[1]]
                 /\ IF weights_file.optimizer # None
                    THEN /\ optimizer' = [optimizer EXCEPT !.loaded = TRUE]
                         /\ best_fitness' = weights_file.best_fitness[1]
                    ELSE UNCHANGED <<optimizer, best_fitness>>
                 /\ results_txt' = IF weights_file.training_results # None
                                   THEN weights_file.training_results[1]
                                   ELSE results_txt
                 /\ start_epoch' = weights_file.epoch + 1
                 /\ UNCHANGED <<args, weights_file, batches_num, epoch, prebias,
                                results, index, saved, train_return,
                                best_results, epoch_log>>
    /\ UNCHANGED <<build_vars, fwd_vars, head_vars, fuse_vars>>

\* Lines 169-241: the scheduler takes over the learning rates (line 175), gr
\* starts at 0.0 (here 0, and 1 for 1.0), prebias and results are bound.
TrainSetup ==
    /\ tpc = "setup"
    /\ tpc' = "first"
    /\ optimizer' = [optimizer EXCEPT !.lr = "scheduled"]
    /\ model' = [model EXCEPT !.gr = 0]
    /\ prebias' = (start_epoch = 0)
    /\ results' = ZeroResults
    /\ UNCHANGED <<args, weights_file, batches_num, epoch, start_epoch,
                   best_fitness, index, results_txt, saved, train_return,
                   best_results, epoch_log>>
    /\ UNCHANGED <<build_vars, fwd_vars, head_vars, fuse_vars>>

\* The value range(start_epoch, args.epochs) yields next (line 242).
NextEpoch == IF tpc = "first" THEN start_epoch ELSE epoch + 1

\* Lines 242-277: an epoch begins.  While prebias holds the bias group (the
\* third parameter group) gets lr 0.1 and momentum 0.9; at epoch 3 it gets
\* lr0 and the momentum of the hyperparameters, gr becomes 1.0 and prebias
\* ends.
TrainEpoch ==
    /\ tpc \in {"first", "next"}
    /\ NextEpoch < args.epochs
    /\ tpc' = "batch"
    /\ epoch' = NextEpoch
    /\ index' = 0
    /\ IF prebias
       THEN IF NextEpoch = warmup_epoch
            THEN /\ model' = [model EXCEPT !.gr = 1]
                 /\ prebias' = FALSE
                 /\ optimizer' = [optimizer EXCEPT !.lr = "lr0",
                                                   !.momentum = "momentum"]
            ELSE /\ optimizer' = [optimizer EXCEPT !.lr = "0.1",
                                                   !.momentum = "0.9"]
                 /\ UNCHANGED <<model, prebias>>
       ELSE UNCHANGED <<model, prebias, optimizer>>
    /\ UNCHANGED <<args, weights_file, batches_num, start_epoch, best_fitness,
                   results, results_txt, saved, train_return, best_results,
                   epoch_log>>
    /\ UNCHANGED <<build_vars, fwd_vars, head_vars, fuse_vars>>

\* Line 280: the number of batches integrated since the start of training.
ni == index + batches_num * epoch

\* Line 327: whether the optimizer steps on batch number n.
StepDue(n, accumulate) == n % accumulate = 0

\* Lines 278-340, a batch of finite loss: its gradients are added to the ones
\* accumulated (optimizer.grads counts the batches accumulated); when the step
\* is due the optimizer steps on them and they are zeroed (optimizer.steps
\* records the number of batches each step was taken on).
TrainBatch ==
    /\ tpc = "batch"
    /\ index < batches_num
    /\ index' = index + 1
    /\ optimizer' =
          IF StepDue(ni, args.accumulate)
          THEN [optimizer EXCEPT !.grads = 0,
                                 !.steps = Append(@, optimizer.grads + 1)]
          ELSE [optimizer EXCEPT !.grads = @ + 1]
    /\ UNCHANGED <<args, weights_file, batches_num, tpc, epoch, start_epoch,
                   best_fitness, prebias, results, model, results_txt, saved,
                   train_return, best_results, epoch_log>>
    /\ UNCHANGED <<build_vars, fwd_vars, head_vars, fuse_vars>>

\* Line 314: what train() returns on a non-finite loss.
AbortResult(last, best) == last

\* Lines 311-314, a batch of non-finite loss: train() returns at once.
TrainNonFinite ==
    /\ tpc = "batch"
    /\ index < batches_num
    /\ tpc' = "aborted"
    /\ train_return' = Some(AbortResult(results, best_results))
    /\ UNCHANGED <<args, weights_file, batches_num, epoch, start_epoch,
                   best_fitness, prebias, results, index, model, optimizer,
                   results_txt, saved, best_results, epoch_log>>
    /\ UNCHANGED <<build_vars, fwd_vars, head_vars, fuse_vars>>

\* Lines 135 and 151-153: best_fitness when the epochs begin, 0.0 or the value
\* of the checkpoint the optimizer was loaded from.
StartBest ==
    IF weights_file.optimizer # None THEN weights_file.best_fitness[1] ELSE 0

\* Line 400: whether the best checkpoint is written.
BestWrittenAlways(best, fitness_i) == TRUE

BestWritten(best, fitness_i) == best = fitness_i

\* Line 384.
Save(final_epoch) ==
    (~args.nosave) \/ (final_epoch /\ ~args.evolve)

\* Lines 342-409: the end of an epoch.  evaluate runs unless notest holds and
\* the epoch is not the final one; results.txt gets a line; best_fitness is
\* raised; `state` is bound only when save holds, and line 397 reads it: it is
\* unbound otherwise (line 161 or line 409 has deleted it, or it was never
\* bound) and train() ends with UnboundLocalError.
TrainEpochEnd ==
    /\ tpc = "batch"
    /\ index = batches_num
    /\ LET final_epoch == (epoch + 1 = args.epochs) IN
       \E r \in IF ~args.notest \/ final_epoch THEN EvalResults ELSE {results} :
          LET fitness_i == fitness(r)
              bf == IF fitness_i > best_fitness THEN fitness_i ELSE best_fitness
          IN /\ results' = r
             /\ best_results' =
                   IF ~args.notest \/ final_epoch
                   THEN IF best_results = None
                           \/ fitness(r) > fitness(best_results[1])
                        THEN Some(r) ELSE best_results
                   ELSE best_results
             /\ results_txt' = results_txt + 1
             /\ best_fitness' = bf
             /\ optimizer' = [optimizer EXCEPT !.lr = "scheduled"]
             /\ IF Save(final_epoch)
                THEN /\ tpc' = "next"
                     /\ saved' =
                          [checkpoint |->
                             Some(Checkpoint(epoch, Some(bf),
                                             Some(results_txt + 1),
                                             model.state_dict,
                                             IF final_epoch THEN None
                                             ELSE Some("SGD"))),
                           model_best |->
                             IF BestWritten(bf, fitness_i)
                             THEN Some(Checkpoint(-1, None, None,
                                                  model.state_dict, None))
                             ELSE saved.model_best]
                     /\ epoch_log' =
                          Append(epoch_log,
                                 [epoch |-> epoch, fitness |-> fitness_i,
                                  best_written |->
                                     BestWritten(bf, fitness_i)])
                ELSE /\ tpc' = "raised"
                     /\ UNCHANGED <<saved, epoch_log>>
    /\ UNCHANGED <<args, weights_file, batches_num, epoch, start_epoch,
                   prebias, index, model, train_return>>
    /\ UNCHANGED <<build_vars, fwd_vars, head_vars, fuse_vars>>

\* Lines 411-418: the epochs are over.
TrainReturn ==
    /\ tpc \in {"first", "next"}
    /\ NextEpoch >= args.epochs
    /\ tpc' = "returned"
    /\ train_return' = Some(results)
    /\ UNCHANGED <<args, weights_file, batches_num, epoch, start_epoch,
                   best_fitness, prebias, results, index, model, optimizer,
                   results_txt, saved, best_results, epoch_log>>
    /\ UNCHANGED <<build_vars, fwd_vars, head_vars, fuse_vars>>

Train ==
    \/ LoadWeights
    \/ TrainSetup
    \/ TrainEpoch
    \/ TrainBatch
    \/ TrainNonFinite
    \/ TrainEpochEnd
    \/ TrainReturn

\* ------------------------------------------------------- specifications
NoHead == Module("YOLOLayer")

HeadIdle ==
    /\ head = NoHead
    /\ rebuilt = FALSE
    /\ ypc = "idle"
    /\ pred_in = NoTensor
    /\ head_training = FALSE
    /\ head_result = NoHeadResult

ForwardIdle ==
    /\ fpc = "idle"
    /\ training = FALSE
    /\ fwd_i = 0
    /\ x = Placeholder
    /\ image_size = <<0, 0>>
    /\ out = <<>>
    /\ yolo_out = <<>>
    /\ fwd_result = NoResult

\* Lines 38-42: create_modules entered with the given architecture.
CreateModulesEntered(channels, defs) ==
    /\ hyper_params = [channels |-> channels]
    /\ module_defines = defs
    /\ bpc = "loop"
    /\ i = <<>>
    /\ output_filters = <<channels>>
    /\ filters = <<>>
    /\ module_list = <<>>
    /\ routs = {}
    /\ yolo_index = -1
    /\ routs_binary = <<>>

\* train() is not running.
NoArgs ==
    [epochs |-> 0, accumulate |-> 1, nosave |-> FALSE, notest |-> FALSE,
     evolve |-> FALSE, weights |-> ""]

\* Lines 111-135: the model and the optimizer as constructed, gr not yet set.
NewModel == [gr |-> 0, state_dict |-> InitialStateDict]
NewOptimizer ==
    [lr |-> "lr0", momentum |-> "momentum", grads |-> 0, steps |-> <<>>,
     loaded |-> FALSE]
NothingSaved == [checkpoint |-> None, model_best |-> None]

\* train() up to line 136, on the given command line, weights file and
\* number of batches per epoch.
TrainEntered(a, file, n, pc) ==
    /\ args = a
    /\ weights_file = file
    /\ batches_num = n
    /\ tpc = pc
    /\ epoch = 0
    /\ start_epoch = 0
    /\ best_fitness = 0
    /\ prebias = FALSE
    /\ results = ZeroResults
    /\ index = 0
    /\ model = NewModel
    /\ optimizer = NewOptimizer
    /\ results_txt = 0
    /\ saved = NothingSaved
    /\ train_return = None
    /\ best_results = None
    /\ epoch_log = <<>>

TrainIdle == TrainEntered(NoArgs, NoFile, 0, "idle")

\* Darknet(config): built from a valid architecture, then called.
Init ==
    /\ \E ch \in Channels, defs \in SeqsUpTo(FwdLayerSpecs, MaxLayers) :
          ValidDefines(defs) /\ CreateModulesEntered(ch, defs)
    /\ ForwardIdle
    /\ HeadIdle
    /\ fuse_log = <<>>
    /\ TrainIdle

Next == CreateModules \/ Forward

Spec == Init /\ [][Next]_vars

\* Darknet(config), then calls of fuse.
InitFuse ==
    /\ \E ch \in Channels, defs \in SeqsUpTo(FuseLayerSpecs, MaxFuseLayers) :
          ValidDefines(defs) /\ CreateModulesEntered(ch, defs)
    /\ ForwardIdle
    /\ HeadIdle
    /\ fuse_log = <<>>
    /\ TrainIdle

NextFuse == CreateModules \/ Fuse

SpecFuse == InitFuse /\ [][NextFuse]_vars

\* create_modules alone, on every valid architecture over every layer type.
InitBuild ==
    /\ \E ch \in Channels, defs \in SeqsUpTo(BuildLayerSpecs, MaxBuildLayers) :
          ValidDefines(defs) /\ CreateModulesEntered(ch, defs)
    /\ ForwardIdle
    /\ HeadIdle
    /\ fuse_log = <<>>
    /\ TrainIdle

NextBuild == CreateModules

SpecBuild == InitBuild /\ [][NextBuild]_vars

\* One YOLOLayer, constructed and then called.
InitHead ==
    /\ hyper_params = [channels |-> 0]
    /\ module_defines = <<>>
    /\ bpc = "idle"
    /\ i = <<>>
    /\ output_filters = <<>>
    /\ filters = <<>>
    /\ module_list = <<>>
    /\ routs = {}
    /\ yolo_index = -1
    /\ routs_binary = <<>>
    /\ ForwardIdle
    /\ \E sz \in HeadSizes : head = YOLOLayerInit(sz[1], sz[2], 0, <<>>)
    /\ rebuilt = FALSE
    /\ ypc = "idle"
    /\ pred_in = NoTensor
    /\ head_training = FALSE
    /\ head_result = NoHeadResult
    /\ fuse_log = <<>>
    /\ TrainIdle

NextHead == YoloEnter \/ YoloForward

SpecHead == InitHead /\ [][NextHead]_vars

\* No model under construction: the builder's variables at rest.
NotBuilding ==
    /\ hyper_params = [channels |-> 0]
    /\ module_defines = <<>>
    /\ bpc = "idle"
    /\ i = <<>>
    /\ output_filters = <<>>
    /\ filters = <<>>
    /\ module_list = <<>>
    /\ routs = {}
    /\ yolo_index = -1
    /\ routs_binary = <<>>

\* The command lines train() is run on: __main__ forces notest and nosave
\* under evolve (line 491), and weights is empty or names a .pth file.
ArgsSet ==
    {a \in [epochs : 1..MaxEpochs, accumulate : 1..MaxAccumulate,
            nosave : BOOLEAN, notest : BOOLEAN, evolve : BOOLEAN,
            weights : {"", "weights/checkpoint.pth"}] :
        a.evolve => (a.notest /\ a.nosave)}

\* train(), from line 136 on.
InitTrain ==
    /\ NotBuilding
    /\ ForwardIdle
    /\ HeadIdle
    /\ fuse_log = <<>>
    /\ \E a \in ArgsSet, n \in 1..MaxBatches,
          file \in WeightsFiles \cup {NoFile} :
          /\ (a.weights = "") <=> (file = NoFile)
          /\ TrainEntered(a, file, n, "load")

NextTrain == Train

SpecTrain == InitTrain /\ [][NextTrain]_vars

\* ================================================================ claims
\* -------------------------------------------------------- create_modules
\* get_yolo_layers, lines 354-356, on a list of layer specs: the indices of
\* the layers of the given types, in order.
RECURSIVE LayersOfType(_, _, _)
LayersOfType(defs, types, k) ==
    IF k >= Len(defs) THEN <<>>
    ELSE (IF defs[k + 1].type \in types THEN <<k>> ELSE <<>>)
         \o LayersOfType(defs, types, k + 1)

\* The channel count create_modules has recorded for layer k: output_filters
\* holds the input channel count first, then one entry per layer.
Recorded(k) == output_filters[k + 2]

\* C1: for every valid architecture, create_modules returns (it does not
\* raise), and the module list and the routed mask it returns have one entry
\* per layer spec.  Stated for the architectures of at least one layer spec;
\* with none, line 184 raises as well.
C1_OneEntryPerLayer ==
    Len(module_defines) >= 1 =>
        /\ bpc # "error"
        /\ bpc = "done" =>
              /\ Len(module_list) = Len(module_defines)
              /\ Len(routs_binary) = Len(module_defines)

\* C2: the channel count recorded for a route at index k is the sum, over its
\* references r, of the channel count recorded for the layer r stands for:
\* layer k + r when r is negative, layer r otherwise (layer 0 included).
C2_RouteChannels ==
    \A k \in 0..(Len(module_defines) - 1) :
        (/\ module_defines[k + 1].type = "route"
         /\ Len(output_filters) >= k + 2)
        => LET layers == module_defines[k + 1].layers IN
           Recorded(k) = SumSeq([j \in 1..Len(layers) |->
                                   Recorded(NormIndex(k, layers[j]))])

\* C3: after create_modules the routed mask is true at the normalised index
\* of every reference of every route, shortcut and yolo layer (a yolo layer
\* referring through its from list).
C3_ReferencesRouted ==
    bpc = "done" =>
        \A k \in 0..(Len(module_defines) - 1) :
            \A r \in SeqToSet(Refs(module_defines[k + 1])) :
                routs_binary[NormIndex(k, r) + 1]

\* C5: a layer spec of an unrecognised type, at whatever index k, does not
\* abort the build: once the loop has passed it, the module list holds a
\* no-op entry at k and the output-channel list an entry for layer k.
C5_UnrecognisedKeepsAlignment ==
    \A k \in 0..(Len(module_defines) - 1) :
        (/\ module_defines[k + 1].type \notin RecognisedTypes
         /\ i = <<k>>)
        => /\ bpc # "error"
           /\ Len(module_list) = k + 1
           /\ module_list[k + 1] = Module("Sequential")
           /\ Len(output_filters) = k + 2

\* The yolo layer at index k is being constructed: the loop of line 44 is
\* about to take it.
YoloNext(k) ==
    /\ bpc = "loop"
    /\ NextIndex = k
    /\ k < Len(module_defines)
    /\ module_defines[k + 1].type = "yolo"

\* The layer whose bias the yolo layer at index k targets (line 165), as a
\* position in the module list built so far; 0 when there is none.
TargetPos(k) ==
    LET m == module_defines[k + 1]
        j == BiasTarget(m, IF m.hasFrom THEN m.from ELSE <<>>, yolo_index + 1)
    IN IF j = Raised \/ ~PyIndexOK(Len(module_list), j[1]) THEN 0
       ELSE PyPos(Len(module_list), j[1])

\* The attempt of the yolo layer at index k fails for one of the reasons of
\* C11: no target layer at the index, a target without a bias, or a bias that
\* cannot be viewed as na rows of at least 5 columns.
BiasInitFails(k) ==
    LET m == module_defines[k + 1]
        t == TargetPos(k)
        n == m.nanchors * (m.classes + 5)
    IN \/ t = 0
       \/ module_list[t].bias_ = <<>>
       \/ (Len(module_list[t].bias_) < n
           /\ \/ Len(module_list[t].bias_) % m.nanchors # 0
              \/ Len(module_list[t].bias_) \div m.nanchors < 5)

\* C11: when the bias initialisation of a yolo layer fails, create_modules
\* does not abort: the yolo layer is appended at its index, the loop goes on,
\* and the modules built before it, their biases included, are as they were.
C11_BiasFailureNotFatal ==
    [][\A k \in 0..(Len(module_defines) - 1) :
         (YoloNext(k) /\ BiasInitFails(k) /\ i' # i)
         => /\ bpc' = "loop"
            /\ Len(module_list') = k + 1
            /\ module_list'[k + 1].kind = "YOLOLayer"
            /\ SubSeq(module_list', 1, k) = module_list]_vars

\* The objectness entries (entry 4 of each of the na slices of size no) of
\* the bias b.
Objectness(b, na, no) == [r \in 1..na |-> b[(r - 1) * no + 5]]

\* C12: once a yolo layer without a from list is constructed at index k
\* behind a convolution whose bias has na * no entries, the mean of the
\* objectness entries of that bias is -4.5.
C12_ObjectnessMean ==
    \A k \in 1..(Len(module_defines) - 1) :
        LET m == module_defines[k + 1]
            na == m.nanchors
            no == m.classes + 5
        IN (/\ m.type = "yolo" /\ ~m.hasFrom
            /\ Len(module_list) > k
            /\ module_list[k].subs # <<>>
            /\ module_list[k].subs[1] = "Conv2d"
            /\ Len(module_list[k].bias_) = na * no)
           => LET obj == Objectness(module_list[k].bias_, na, no) IN
              /\ SumSeq([r \in 1..na |-> obj[r].v]) = na * bo
              /\ \A r \in 1..na : obj[r].bc = 0

\* -------------------------------------------------------- Darknet.forward
\* C4: the history list of a call starts empty and has one entry per layer
\* processed; the entry appended for layer k is the current tensor where the
\* routed mask is true at k and the placeholder elsewhere, whatever the type
\* of layer k.
C4_History ==
    /\ [](Len(out) = fwd_i)
    /\ [][(fpc # "loop" /\ fpc' = "loop") => (out' = <<>> /\ fwd_i' = 0)]_vars
    /\ [][(fpc = "loop" /\ fwd_i' # fwd_i) =>
            /\ fwd_i' = fwd_i + 1
            /\ Len(out') = fwd_i + 1
            /\ out'[fwd_i + 1] = IF routs_binary[fwd_i + 1] THEN x'
                                 ELSE Placeholder]_vars

\* A call is under way on a model that has been called before (a yolo layer
\* has cached a grid); two layers are processed, the first not routed and the
\* second routed.
C4_Witness ==
    /\ fpc = "loop"
    /\ fwd_i = 2
    /\ out[1] = Placeholder
    /\ out[2] # Placeholder
    /\ \E k \in 1..Len(module_list) : module_list[k].nx # 0

\* The executable units of C19: the types for which create_modules builds a
\* module that computes something from the current tensor alone.
UnitTypes ==
    {"convolutional", "maxpool", "avgpool", "semodule", "shuffle", "dense",
     "upsample"}

\* C19: every step of forward over a layer of a unit type leaves as current
\* tensor the output of that layer's module: a tensor made at that layer.
C19_EveryUnitExecuted ==
    [][(/\ fpc = "loop"
        /\ fwd_i' = fwd_i + 1
        /\ module_defines[fwd_i + 1].type \in UnitTypes)
       => (x'.src = fwd_i /\ x'.op = "module")]_vars

\* The route at the layer forward is about to process has several
\* references, all to tensors kept in the history, of one batch size and not
\* all of one spatial size: torch.cat fails on their spatial sizes alone.
SpatialMismatch ==
    /\ fpc = "loop"
    /\ fwd_i < Len(module_defines)
    /\ module_defines[fwd_i + 1].type = "route"
    /\ LET layers == module_defines[fwd_i + 1].layers IN
       /\ Len(layers) >= 2
       /\ \A j \in 1..Len(layers) :
             /\ PyIndexOK(Len(out), layers[j])
             /\ ~OutAt(out, layers[j]).empty
             /\ OutAt(out, layers[j]).bs = OutAt(out, layers[1]).bs
       /\ \E j \in 1..Len(layers) :
             \/ OutAt(out, layers[j]).h # OutAt(out, layers[1]).h
             \/ OutAt(out, layers[j]).w # OutAt(out, layers[1]).w

\* The tensor line 227 resamples, the second reference, and its place in the
\* history.
SecondRef == OutAt(out, module_defines[fwd_i + 1].layers[2])
SecondPos == PyPos(Len(out), module_defines[fwd_i + 1].layers[2])

\* The step retries the concatenation once, on the history with the second
\* reference at half its height and width: it ends with the concatenation of
\* that history, or, when that fails too, with an error and no result.
RetriedOnce ==
    LET layers == module_defines[fwd_i + 1].layers
        half == Tensor(SecondRef.bs, SecondRef.c, SecondRef.h \div 2,
                       SecondRef.w \div 2, fwd_i, "interpolate")
        out2 == [out EXCEPT ![SecondPos] = half]
        again == CatRefs(layers, out2, fwd_i)
    IN IF again = Raised
       THEN fpc' = "error" /\ out' = out2 /\ fwd_result' = NoResult
       ELSE /\ fpc' = "loop"
            /\ x' = again[1]
            /\ out' = Append(out2, HistoryEntry(routs_binary[fwd_i + 1], x'))

\* C17 as stated: on a spatial mismatch forward halves a referenced tensor
\* and retries the concatenation once.
C17_AsStated ==
    [][(SpatialMismatch /\ <<fpc, fwd_i>>' # <<fpc, fwd_i>>)
       => RetriedOnce]_vars

\* C17, amended: on a spatial mismatch forward halves the second referenced
\* tensor and retries the concatenation once, ending with an error and no
\* result when the retry fails; when that tensor is one cell high or wide it
\* cannot be halved, and the call ends with an error without a retry.
C17_RouteRetriesOnce ==
    [][(SpatialMismatch /\ <<fpc, fwd_i>>' # <<fpc, fwd_i>>)
       => IF SecondRef.h >= 2 /\ SecondRef.w >= 2
          THEN RetriedOnce
          ELSE fpc' = "error" /\ out' = out /\ fwd_result' = NoResult]_vars

\* A retry has succeeded: the current tensor is a concatenation made of a
\* history in which a tensor was halved.
C17_Witness ==
    /\ fpc = "loop"
    /\ x.op = "cat"
    /\ \E k \in 1..Len(out) : out[k].op = "interpolate"

\* Whether the entry a is a convolution followed by a batch-normalisation.
IsConvBn(a) ==
    /\ a.kind = "Sequential"
    /\ Len(a.subs) >= 2
    /\ a.subs[1] = "Conv2d"
    /\ a.subs[2] = "BatchNorm2d"

\* C16: a call of fuse ends normally and leaves a module list of the same
\* length in which every convolution followed by a batch-normalisation has
\* become a fused convolution followed by the rest of its sublayers, and
\* every other entry is as it was (so that a second call changes nothing).
C16_FuseKeepsAlignment ==
    [][fuse_log' # fuse_log
       => /\ fuse_log' = Append(fuse_log, "done")
          /\ Len(module_list') = Len(module_list)
          /\ \A k \in 1..Len(module_list) :
                LET a == module_list[k] IN
                module_list'[k] =
                   IF IsConvBn(a)
                   THEN [a EXCEPT !.subs = <<"Conv2d">>
                                           \o SubSeq(a.subs, 3, Len(a.subs)),
                                  !.bias = TRUE, !.fused = TRUE]
                   ELSE a]_vars

\* The architecture of spec.md section 8: a convolution with batch-norm of f
\* channels, a route referring to it, a yolo head of 2 anchors and 1 class.
EndToEnd(f) ==
    /\ Len(module_defines) = 3
    /\ module_defines[1] = Convolutional(TRUE, f)
    /\ module_defines[2].type = "route"
    /\ Len(module_defines[2].layers) = 1
    /\ NormIndex(1, module_defines[2].layers[1]) = 0
    /\ module_defines[3] = Yolo

\* An inference call on a batch of one image has ended.
InferenceEnded == fpc \in {"done", "error"} /\ ~training /\ x.bs = 1

\* C6 as stated: with a convolution of 4 channels the inference call succeeds
\* and returns detections of shape (1, 2 * grid_y * grid_x, 6).
C6_AsStated ==
    (EndToEnd(4) /\ InferenceEnded) =>
        /\ fpc = "done"
        /\ fwd_result.io = <<1, 2 * image_size[1] * image_size[2], 6>>

\* C6, amended: with a convolution of 12 = 2 * (1 + 5) channels the inference
\* call succeeds and returns detections of shape (1, 2 * grid_y * grid_x, 6);
\* with 4 channels it raises.
C6_EndToEnd ==
    /\ (EndToEnd(12) /\ InferenceEnded) =>
          /\ fpc = "done"
          /\ fwd_result.kind = "infer"
          /\ fwd_result.io = <<1, 2 * image_size[1] * image_size[2], 6>>
    /\ (EndToEnd(4) /\ InferenceEnded) => fpc = "error"

C6_Witness ==
    /\ EndToEnd(12)
    /\ InferenceEnded
    /\ fpc = "done"
    /\ image_size = <<2, 4>>

\* C9: a call that returns has collected one prediction per yolo layer, in
\* the order of the layers.  In training mode it returns them; in inference
\* mode it returns them with the decoded detections, whose number is the sum
\* over the yolo layers of na * ny * nx.
C9_OnePerYoloLayer ==
    fpc = "done" =>
        LET yolos == LayersOfType(module_defines, {"yolo"}, 0)
            p == fwd_result.p
        IN /\ Len(p) = Len(yolos)
           /\ \A j \in 1..Len(p) : p[j].layer = yolos[j]
           /\ p = [j \in 1..Len(yolo_out) |-> yolo_out[j].p]
           /\ training => fwd_result.kind = "train" /\ fwd_result.io = <<>>
           /\ ~training =>
                 /\ fwd_result.kind = "infer"
                 /\ fwd_result.io[2] =
                       SumSeq([j \in 1..Len(p) |->
                                 p[j].shape[2] * p[j].shape[3] * p[j].shape[4]])

\* An inference call has returned the detections of two yolo layers.
C9_Witness ==
    /\ fpc = "done"
    /\ ~training
    /\ Len(fwd_result.p) = 2
    /\ fwd_result.io[2] = 2 * (2 * image_size[1] * image_size[2])

\* ------------------------------------------------------ YOLOLayer.forward
\* The sizes of the last call's input, of shape (bs, na * no, ny, nx).
InBs == pred_in.shape[1]
InNy == pred_in.shape[3]
InNx == pred_in.shape[4]

\* The element at [b, ch, y, xx] of the last call's input.
InAt(b, ch, y, xx) ==
    pred_in.data[1 + ((b * pred_in.shape[2] + ch) * InNy + y) * InNx + xx]

\* The element at [b, a, y, xx, o] of a tensor t of shape (bs, na, ny, nx, no).
PredAt(t, b, a, y, xx, o) ==
    t.data[1 + (((b * head.na + a) * InNy + y) * InNx + xx) * head.no + o]

\* t is the input re-indexed: of shape (bs, na, ny, nx, no), the element at
\* [b, a, y, xx, o] being the input's element at [b, a * no + o, y, xx].
IsReindexedInput(t) ==
    /\ t.shape = <<InBs, head.na, InNy, InNx, head.no>>
    /\ Len(t.data) = Len(pred_in.data)
    /\ \A b \in 0..(InBs - 1), a \in 0..(head.na - 1), y \in 0..(InNy - 1),
          xx \in 0..(InNx - 1), o \in 0..(head.no - 1) :
          PredAt(t, b, a, y, xx, o) = InAt(b, a * head.no + o, y, xx)

\* C7: in training mode the head returns its input re-indexed, no value
\* transformed.
C7_TrainingReindexes ==
    (ypc = "done" /\ head_training) =>
        /\ IsReindexedInput(head_result.p)
        /\ head_result.io = NoTensor

\* A training call on a batch of two, of a grid of 2 rows and 1 column.
C7_Witness ==
    /\ ypc = "done"
    /\ head_training
    /\ head.na = 2
    /\ pred_in.shape = <<2, 12, 2, 1>>
    /\ PredAt(head_result.p, 1, 1, 1, 0, 4) = Elem(46)

\* C8: the cache starts at (0, 0); a call calls create_grids exactly when the
\* grid (nx, ny) of its input differs from the cached one, and leaves the grid
\* of its input cached.
C8_GridCache ==
    /\ [](ypc = "idle" => <<head.nx, head.ny>> = <<0, 0>>)
    /\ [][(ypc = "called" /\ ypc' # "called") =>
            /\ rebuilt' <=> (<<head.nx, head.ny>> # <<InNx, InNy>>)
            /\ ~rebuilt' => head' = head
            /\ <<head'.nx, head'.ny>> = <<InNx, InNy>>]_vars

\* A call at the resolution of the call before it has ended without a call of
\* create_grids.
C8_Witness ==
    /\ ypc = "done"
    /\ ~rebuilt
    /\ <<head.nx, head.ny>> = <<1, 2>>

\* What lines 345-349 make of the raw element e at anchor a, cell (y, xx),
\* output o.
Decoded(e, a, y, xx, o) ==
    CASE o = 0 -> [v |-> e.v, f |-> <<"sigmoid", "+grid_xy", "*stride">>,
                   g |-> <<"x", xx>>]
      [] o = 1 -> [v |-> e.v, f |-> <<"sigmoid", "+grid_xy", "*stride">>,
                   g |-> <<"y", y>>]
      [] o = 2 -> [v |-> e.v, f |-> <<"exp", "*anchor_wh", "*stride">>,
                   g |-> <<"w", a>>]
      [] o = 3 -> [v |-> e.v, f |-> <<"exp", "*anchor_wh", "*stride">>,
                   g |-> <<"h", a>>]
      [] OTHER -> [v |-> e.v, f |-> <<"sigmoid">>, g |-> <<>>]

\* C10: in inference mode the second element returned is the input
\* re-indexed, as in training mode, untouched by the decode; the first is of
\* shape (bs, na * ny * nx, no) and holds at detection (a * ny + y) * nx + xx
\* the decoded entry of anchor a at cell (y, xx).
C10_DecodesACopy ==
    (ypc = "done" /\ ~head_training) =>
        /\ IsReindexedInput(head_result.p)
        /\ head_result.io.shape = <<InBs, head.na * InNy * InNx, head.no>>
        /\ \A b \in 0..(InBs - 1), a \in 0..(head.na - 1), y \in 0..(InNy - 1),
              xx \in 0..(InNx - 1), o \in 0..(head.no - 1) :
              head_result.io.data[1 + (b * (head.na * InNy * InNx)
                                       + (a * InNy + y) * InNx + xx) * head.no
                                    + o]
              = Decoded(InAt(b, a * head.no + o, y, xx), a, y, xx, o)

\* An inference call on a batch of two, of a grid of 1 row and 2 columns.
C10_Witness ==
    /\ ypc = "done"
    /\ ~head_training
    /\ head.na = 2
    /\ pred_in.shape = <<2, 12, 1, 2>>
    /\ head_result.io.shape = <<2, 4, 6>>

\* ---------------------------------------------------------------- train.py
\* C13: when the loss of a training step is non-finite, train() stops at once
\* and returns the best evaluation results of the epochs completed so far.
C13_ReturnsBestOnNonFinite ==
    (tpc = "aborted" /\ best_results # None) => train_return = best_results

\* The state_dict the claim C14 describes: the file's tensor where the model
\* has a parameter of that name and shape, the model's own tensor elsewhere.
MatchingLoaded(md, sd) ==
    [k \in DOMAIN md |->
        IF k \in DOMAIN sd /\ sd[k].shape = md[k].shape THEN sd[k] ELSE md[k]]

\* C14: loading a .pth checkpoint is never fatal: the parameters of another
\* shape and the ones the model lacks are skipped, the matching ones are
\* loaded, and training goes on.
C14_LoadNeverFatal ==
    [][(tpc = "load" /\ args.weights # "" /\ tpc' # tpc) =>
          /\ tpc' = "setup"
          /\ model'.state_dict
                = MatchingLoaded(model.state_dict, weights_file.model)]_vars

\* C15: at the end of every training epoch, whatever nosave, notest and evolve
\* are, the last checkpoint is written with the epoch number, the current
\* best fitness, the results log and the model state, and the run goes on.
C15_CheckpointEveryEpoch ==
    [][(tpc = "batch" /\ index = batches_num /\ tpc' # tpc) =>
          /\ tpc' = "next"
          /\ saved'.checkpoint # None
          /\ saved'.checkpoint[1].epoch = epoch
          /\ saved'.checkpoint[1].best_fitness = Some(best_fitness')
          /\ saved'.checkpoint[1].training_results = Some(results_txt')
          /\ saved'.checkpoint[1].model = model.state_dict]_vars

\* C18: every optimizer step, the first of a run and the first after a resume
\* included, is taken on the gradients of exactly `accumulate` batches.
C18_StepEveryAccumulate ==
    [][Len(optimizer'.steps) > Len(optimizer.steps) =>
          optimizer'.steps[Len(optimizer'.steps)] = args.accumulate]_vars

\* C20: every epoch e >= 3 that is trained runs with gr = 1.0, and only the
\* epochs 0, 1 and 2 of a fresh run have gr = 0.0 with the bias group at
\* lr 0.1 and momentum 0.9.
C20_PrebiasEnds ==
    tpc = "batch" =>
        /\ (epoch >= warmup_epoch => model.gr = 1)
        /\ (model.gr = 0 /\ optimizer.lr = "0.1" /\ optimizer.momentum = "0.9")
              => (start_epoch = 0 /\ epoch < warmup_epoch)

\* The maximum of best_fitness at the start of the run and of the fitness of
\* the first k epochs completed.
BestUpTo(k) ==
    LET all == {StartBest} \cup {epoch_log[j].fitness : j \in 1..k}
    IN CHOOSE m \in all : \A f \in all : m >= f

\* C21: after every completed epoch best_fitness is the maximum of its value
\* at the start of the run and of the fitness of every epoch completed so far,
\* and the best checkpoint was written in exactly the epochs whose fitness
\* equals that maximum.
C21_BestFitnessIsMaximum ==
    tpc = "next" =>
        /\ best_fitness = BestUpTo(Len(epoch_log))
        /\ \A k \in 1..Len(epoch_log) :
              epoch_log[k].best_written
                 <=> (epoch_log[k].fitness = BestUpTo(k))
        /\ (\E k \in 1..Len(epoch_log) : epoch_log[k].best_written)
              <=> (saved.model_best # None)

\* A run resumed with best_fitness 1: an epoch of fitness 0 that writes no
\* best checkpoint, then an epoch of fitness 2 that writes it.
C21_Witness ==
    /\ tpc = "next"
    /\ StartBest = 1
    /\ Len(epoch_log) = 2
    /\ epoch_log[1].fitness = 0
    /\ ~epoch_log[1].best_written
    /\ epoch_log[2].fitness = 2
    /\ epoch_log[2].best_written
    /\ best_fitness = 2
====
